---- MODULE Spec2Model ----
(***************************************************************************)
(* The lexer of the stamina assembler (src/src/smasm/lexer.cpp): a         *)
(* StringTokenizer over an in-memory string, with one character of         *)
(* lookahead, modelled call by call of Tokenizer::next_token.              *)
(*                                                                         *)
(* Characters are their ASCII codes, strings are sequences of codes, and   *)
(* std::optional<char> is a code or NullOpt.  std::nullopt compares less   *)
(* than every char and equal to none, as NullOpt does.                     *)
(***************************************************************************)
EXTENDS Integers, Sequences, FiniteSets, TLC

\* ------------------------------------------------------------------------
\* Characters
\* ------------------------------------------------------------------------

\* the character literals of the source, as their ASCII codes
Ch ==
    ("\t" :> 9) @@ ("\n" :> 10) @@ ("\r" :> 13) @@ (" " :> 32) @@ ("!" :> 33) @@
    ("\"" :> 34) @@ ("#" :> 35) @@ ("$" :> 36) @@ ("%" :> 37) @@ ("&" :> 38) @@
    ("'" :> 39) @@ ("(" :> 40) @@ (")" :> 41) @@ ("*" :> 42) @@ ("+" :> 43) @@
    ("," :> 44) @@ ("-" :> 45) @@ ("." :> 46) @@ ("/" :> 47) @@ ("0" :> 48) @@
    ("1" :> 49) @@ ("2" :> 50) @@ ("3" :> 51) @@ ("4" :> 52) @@ ("5" :> 53) @@
    ("6" :> 54) @@ ("7" :> 55) @@ ("8" :> 56) @@ ("9" :> 57) @@ (":" :> 58) @@
    (";" :> 59) @@ ("<" :> 60) @@ ("=" :> 61) @@ (">" :> 62) @@ ("?" :> 63) @@
    ("@" :> 64) @@ ("A" :> 65) @@ ("B" :> 66) @@ ("C" :> 67) @@ ("D" :> 68) @@
    ("E" :> 69) @@ ("F" :> 70) @@ ("G" :> 71) @@ ("H" :> 72) @@ ("I" :> 73) @@
    ("J" :> 74) @@ ("K" :> 75) @@ ("L" :> 76) @@ ("M" :> 77) @@ ("N" :> 78) @@
    ("O" :> 79) @@ ("P" :> 80) @@ ("Q" :> 81) @@ ("R" :> 82) @@ ("S" :> 83) @@
    ("T" :> 84) @@ ("U" :> 85) @@ ("V" :> 86) @@ ("W" :> 87) @@ ("X" :> 88) @@
    ("Y" :> 89) @@ ("Z" :> 90) @@ ("[" :> 91) @@ ("\\" :> 92) @@ ("]" :> 93) @@
    ("^" :> 94) @@ ("_" :> 95) @@ ("backtick" :> 96) @@ ("a" :> 97) @@ ("b" :> 98) @@
    ("c" :> 99) @@ ("d" :> 100) @@ ("e" :> 101) @@ ("f" :> 102) @@ ("g" :> 103) @@
    ("h" :> 104) @@ ("i" :> 105) @@ ("j" :> 106) @@ ("k" :> 107) @@ ("l" :> 108) @@
    ("m" :> 109) @@ ("n" :> 110) @@ ("o" :> 111) @@ ("p" :> 112) @@ ("q" :> 113) @@
    ("r" :> 114) @@ ("s" :> 115) @@ ("t" :> 116) @@ ("u" :> 117) @@ ("v" :> 118) @@
    ("w" :> 119) @@ ("x" :> 120) @@ ("y" :> 121) @@ ("z" :> 122) @@ ("{" :> 123) @@
    ("|" :> 124) @@ ("}" :> 125) @@ ("~" :> 126)

\* the empty std::optional<char>
NullOpt == -256

\* a C++ string literal, character by character
S(lits) == [i \in 1..Len(lits) |-> Ch[lits[i]]]

\* ------------------------------------------------------------------------
\* Bounds
\* ------------------------------------------------------------------------

\* every input over Alphabet of at most MaxLen characters is tokenized
MaxLen == 3

\* number of next_token calls made on one tokenizer, and of those made after
\* the first EndOfFile
MaxCalls == 16

MaxEofCalls == 2

\* width of the unsigned line and column counters of Position
UnsignedBits == 5

\* width of the signed integer s64 of numeric literals
IntBits == 8

\* ------------------------------------------------------------------------
\* Character classes (lexer.cpp, anonymous namespace)
\* ------------------------------------------------------------------------

\* is_letter with one range from A to z
is_letter_wide(c) ==
    (c >= Ch["A"] /\ c <= Ch["z"])

is_letter(c) ==
    (c >= Ch["a"] /\ c <= Ch["z"]) \/ (c >= Ch["A"] /\ c <= Ch["Z"])

is_decimal_digit(c) ==
    (c >= Ch["0"] /\ c <= Ch["9"])

is_identifier_char(c) ==
    is_letter(c) \/ is_decimal_digit(c) \/ c = Ch["."] \/ c = Ch["_"]

is_octal_digit(c) ==
    (c >= Ch["0"] /\ c <= Ch["7"])

is_binary_digit(c) ==
    (c >= Ch["0"] /\ c <= Ch["1"])

is_hex_digit(c) ==
    (c >= Ch["0"] /\ c <= Ch["9"]) \/ (c >= Ch["a"] /\ c <= Ch["f"])
        \/ (c >= Ch["A"] /\ c <= Ch["F"])

\* the characters digit_value has a value for; any other reaches UNREACHABLE()
digit_value_defined(c) ==
    (c >= Ch["0"] /\ c <= Ch["9"]) \/ (c >= Ch["a"] /\ c <= Ch["f"])
        \/ (c >= Ch["A"] /\ c <= Ch["F"])

\* digit_value that gives a letter digit its place in the alphabet
digit_value_no_ten(c) ==
    IF c >= Ch["0"] /\ c <= Ch["9"] THEN c - Ch["0"]
    ELSE IF c >= Ch["a"] /\ c <= Ch["f"] THEN c - Ch["a"]
    ELSE IF c >= Ch["A"] /\ c <= Ch["F"] THEN c - Ch["A"]
    ELSE 0

digit_value(c) ==
    IF c >= Ch["0"] /\ c <= Ch["9"] THEN c - Ch["0"]
    ELSE IF c >= Ch["a"] /\ c <= Ch["f"] THEN c - Ch["a"] + 10
    ELSE IF c >= Ch["A"] /\ c <= Ch["F"] THEN c - Ch["A"] + 10
    ELSE 0

is_whitespace(c) ==
    c = 32 \/ c = 9 \/ c = 13

\* toupper that leaves the text as it is
toupper_char_identity(c) == c

\* std::toupper on one char, and stamina::toupper on a string
toupper_char(c) ==
    IF c >= Ch["a"] /\ c <= Ch["z"] THEN c - (Ch["a"] - Ch["A"]) ELSE c

toupper(str) == [i \in 1..Len(str) |-> toupper_char(str[i])]

\* the instruction table (common/instructions.inc): the plain mnemonics and
\* the conditions of the compare instructions
mnemonics == { S(<<"A","D","D">>), S(<<"N","O","P">>) }

conds == { S(<<"E","Q">>), S(<<"N","E">>) }

\* ------------------------------------------------------------------------
\* Position
\* ------------------------------------------------------------------------

\* unsigned arithmetic
Unsigned(n) == n % (2 ^ UnsignedBits)

Position == [filename |-> "(unknown)", line |-> 1, column |-> 0]

next_line(p) ==
    [filename |-> p.filename, line |-> Unsigned(p.line + 1), column |-> 1]

Position_advance(p, num_char) ==
    [filename |-> p.filename, line |-> p.line,
     column |-> Unsigned(p.column + num_char)]

\* ------------------------------------------------------------------------
\* Token
\* ------------------------------------------------------------------------

\* the alternatives of std::variant<std::monostate, std::string, s64>
Monostate == [kind |-> "none"]

Text(str) == [kind |-> "text", text |-> str]

\* a std::string built from a message and the strings spliced into it
Message(msg, args) == [kind |-> "text", msg |-> msg, args |-> args]

Integer(v) == [kind |-> "integer", integer |-> v]

\* ------------------------------------------------------------------------
\* Tokenizer and StringTokenizer: the object is the record t
\* ------------------------------------------------------------------------

\* the first abort of the process, if any
Abort(t, cond, what) ==
    IF cond /\ t.fault = "none" THEN [t EXCEPT !.fault = what] ELSE t

\* *ch
Deref(t) == Abort(t, t.ch = NullOpt, "bad optional access")

\* a call digit_value(c)
Call_digit_value(t, c) == Abort(t, ~digit_value_defined(c), "UNREACHABLE")

\* advance that moves the column on after a newline too
advance_no_next_line(t) ==
    [t EXCEPT
        !.ch_pos = Position_advance(t.ch_pos, 1),
        !.ch = IF t.index >= Len(t.str) THEN NullOpt ELSE t.str[t.index + 1],
        !.index = IF t.index >= Len(t.str) THEN t.index ELSE t.index + 1]

advance(t) ==
    [t EXCEPT
        !.ch_pos = IF t.ch = Ch["\n"] THEN next_line(t.ch_pos)
                   ELSE Position_advance(t.ch_pos, 1),
        !.ch = IF t.index >= Len(t.str) THEN NullOpt ELSE t.str[t.index + 1],
        !.index = IF t.index >= Len(t.str) THEN t.index ELSE t.index + 1]

\* the tokenizer as constructed over str
StringTokenizer(str) ==
    advance([str |-> str, index |-> 0, ch |-> NullOpt, ch_pos |-> Position,
             source_code |-> <<>>, pos |-> Position, can_newline |-> TRUE,
             fault |-> "none"])

\* next_ch that keeps newlines out of source_code
next_ch_drops_newline(t) ==
    advance(IF t.ch # NullOpt /\ t.ch # Ch["\n"]
            THEN [t EXCEPT !.source_code = Append(t.source_code, t.ch)]
            ELSE t)

next_ch(t) ==
    advance(IF t.ch # NullOpt
            THEN [t EXCEPT !.source_code = Append(t.source_code, t.ch)]
            ELSE t)

maybe_ch(t, check_ch) ==
    IF t.ch = check_ch THEN [t |-> next_ch(t), ok |-> TRUE]
    ELSE [t |-> t, ok |-> FALSE]

\* maybe_ch(a) || maybe_ch(b)
maybe_ch_or(t, a, b) ==
    IF maybe_ch(t, a).ok THEN maybe_ch(t, a) ELSE maybe_ch(t, b)

make_token(t, type, payload) ==
    [pos |-> t.pos, type |-> type, payload |-> payload,
     source_code |-> t.source_code]

\* a Token returned, with the tokenizer as the call leaves it
Return(t, type, payload) == [t |-> t, tok |-> make_token(t, type, payload)]

\* ------------------------------------------------------------------------
\* What the language leaves to the build
\* ------------------------------------------------------------------------

\* char is signed or unsigned; a signed overflow of s64 either wraps, or the
\* compiler has removed the test (value < 0) that no defined execution passes
Builds == [char_signed : BOOLEAN, overflow : {"wrap", "elide"}]

\* (char)value, for value in 0..255
to_char(value, b) ==
    IF b.char_signed /\ value >= 128 THEN value - 256 ELSE value

\* two's complement s64
to_s64(n) == ((n + 2 ^ (IntBits - 1)) % (2 ^ IntBits)) - 2 ^ (IntBits - 1)

\* ------------------------------------------------------------------------
\* The lexers; each returns the tokenizer as it leaves it
\* ------------------------------------------------------------------------

RECURSIVE octal_escape_off_by_one(_, _, _)
\* octal_escape that fails only above 256
octal_escape_off_by_one(t, value, b) ==
    IF is_octal_digit(t.ch)
    THEN LET v == value * 8 + digit_value(t.ch)
             t1 == next_ch(Call_digit_value(Deref(t), t.ch))
         IN  IF v > 256 THEN [t |-> t1, c |-> NullOpt]
             ELSE octal_escape_off_by_one(t1, v, b)
    ELSE [t |-> t, c |-> to_char(value, b)]

RECURSIVE octal_escape(_, _, _)
\* lexer.cpp:230-237, value being the digits read so far
octal_escape(t, value, b) ==
    IF is_octal_digit(t.ch)
    THEN LET v == value * 8 + digit_value(t.ch)
             t1 == next_ch(Call_digit_value(Deref(t), t.ch))
         IN  IF v >= 256 THEN [t |-> t1, c |-> NullOpt]
             ELSE octal_escape(t1, v, b)
    ELSE [t |-> t, c |-> to_char(value, b)]

\* lexer.cpp:226-260: the switch on the character after the backslash
\* escape that gives \v the byte of \f
escape_v_as_f(t, c, b) ==
    IF c >= Ch["0"] /\ c <= Ch["7"]
    THEN octal_escape(Call_digit_value(t, c), digit_value(c), b)
    ELSE IF c = Ch["a"] THEN [t |-> t, c |-> 7]
    ELSE IF c = Ch["b"] THEN [t |-> t, c |-> 8]
    ELSE IF c = Ch["f"] THEN [t |-> t, c |-> 12]
    ELSE IF c = Ch["n"] THEN [t |-> t, c |-> 10]
    ELSE IF c = Ch["r"] THEN [t |-> t, c |-> 13]
    ELSE IF c = Ch["t"] THEN [t |-> t, c |-> 9]
    ELSE IF c = Ch["v"] THEN [t |-> t, c |-> 12]
    ELSE IF c = Ch["\\"] THEN [t |-> t, c |-> 92]
    ELSE IF c = Ch["'"] THEN [t |-> t, c |-> 39]
    ELSE IF c = Ch["\""] THEN [t |-> t, c |-> 34]
    ELSE [t |-> t, c |-> NullOpt]

escape(t, c, b) ==
    IF c >= Ch["0"] /\ c <= Ch["7"]
    THEN octal_escape(Call_digit_value(t, c), digit_value(c), b)
    ELSE IF c = Ch["a"] THEN [t |-> t, c |-> 7]
    ELSE IF c = Ch["b"] THEN [t |-> t, c |-> 8]
    ELSE IF c = Ch["f"] THEN [t |-> t, c |-> 12]
    ELSE IF c = Ch["n"] THEN [t |-> t, c |-> 10]
    ELSE IF c = Ch["r"] THEN [t |-> t, c |-> 13]
    ELSE IF c = Ch["t"] THEN [t |-> t, c |-> 9]
    ELSE IF c = Ch["v"] THEN [t |-> t, c |-> 11]
    ELSE IF c = Ch["\\"] THEN [t |-> t, c |-> 92]
    ELSE IF c = Ch["'"] THEN [t |-> t, c |-> 39]
    ELSE IF c = Ch["\""] THEN [t |-> t, c |-> 34]
    ELSE [t |-> t, c |-> NullOpt]

\* lex_single_translated_char without the test for end-of-input after a backslash
lex_single_translated_char_unchecked(t, b) ==
    IF ~maybe_ch(t, Ch["\\"]).ok
    THEN [t |-> next_ch(t), c |-> t.ch]
    ELSE LET t1 == maybe_ch(t, Ch["\\"]).t
         IN  escape(next_ch(Deref(t1)), t1.ch, b)

lex_single_translated_char(t, b) ==
    IF ~maybe_ch(t, Ch["\\"]).ok
    THEN [t |-> next_ch(t), c |-> t.ch]
    ELSE LET t1 == maybe_ch(t, Ch["\\"]).t
         IN  IF t1.ch = NullOpt THEN [t |-> t1, c |-> NullOpt]
             ELSE escape(next_ch(Deref(t1)), t1.ch, b)

RECURSIVE translated_string_loop_open(_, _, _)
\* translated_string_loop that leaves the closing quote in the input
translated_string_loop_open(t, str, b) ==
    IF t.ch # Ch["\""]
    THEN LET r == lex_single_translated_char(t, b)
         IN  IF r.c # NullOpt
             THEN translated_string_loop_open(r.t, Append(str, r.c), b)
             ELSE Return(r.t, "Error", Message("invalid character in string", <<>>))
    ELSE Return(t, "StringLit", Text(str))

RECURSIVE translated_string_loop(_, _, _)
\* lexer.cpp:265-273, str being the characters decoded so far
translated_string_loop(t, str, b) ==
    IF t.ch # Ch["\""]
    THEN LET r == lex_single_translated_char(t, b)
         IN  IF r.c # NullOpt
             THEN translated_string_loop(r.t, Append(str, r.c), b)
             ELSE Return(r.t, "Error", Message("invalid character in string", <<>>))
    ELSE Return(next_ch(t), "StringLit", Text(str))

lex_translated_string(t, b) == translated_string_loop(t, <<>>, b)

\* lex_char that skips the character after the decoded one with advance()
lex_char_advance(t, b) ==
    LET r == lex_single_translated_char(t, b)
    IN  IF r.c = NullOpt
        THEN Return(r.t, "Error", Message("invalid character", <<>>))
        ELSE LET t1 == advance(r.t)
             IN  IF t1.ch # Ch["'"]
                 THEN Return(t1, "Error",
                        Message("character literal can only contain single character", <<>>))
                 ELSE Return(next_ch(t1), "NumericLit", Integer(r.c))

lex_char(t, b) ==
    LET r == lex_single_translated_char(t, b)
    IN  IF r.c = NullOpt
        THEN Return(r.t, "Error", Message("invalid character", <<>>))
        ELSE LET t1 == next_ch(r.t)
             IN  IF t1.ch # Ch["'"]
                 THEN Return(t1, "Error",
                        Message("character literal can only contain single character", <<>>))
                 ELSE Return(next_ch(t1), "NumericLit", Integer(r.c))

RECURSIVE raw_string_loop_escapes(_, _)
\* raw_string_loop that takes a backslash as the start of an escape and
\* leaves it out of the string
raw_string_loop_escapes(t, str) ==
    IF t.ch # Ch["backtick"]
    THEN IF t.ch = NullOpt
         THEN Return(t, "Error", Message("invalid end-of-file in raw string", <<>>))
         ELSE IF t.ch = Ch["\\"]
         THEN raw_string_loop_escapes(next_ch(Deref(t)), str)
         ELSE raw_string_loop_escapes(next_ch(Deref(t)), Append(str, t.ch))
    ELSE Return(next_ch(t), "StringLit", Text(str))

RECURSIVE raw_string_loop(_, _)
\* lexer.cpp:293-301
raw_string_loop(t, str) ==
    IF t.ch # Ch["backtick"]
    THEN IF t.ch = NullOpt
         THEN Return(t, "Error", Message("invalid end-of-file in raw string", <<>>))
         ELSE raw_string_loop(next_ch(Deref(t)), Append(str, t.ch))
    ELSE Return(next_ch(t), "StringLit", Text(str))

lex_raw_string(t) == raw_string_loop(t, <<>>)

RECURSIVE identifier_chars_letters(_, _)
\* identifier_chars that stops at the first character that is not a letter
identifier_chars_letters(t, ret) ==
    IF is_letter(t.ch)
    THEN identifier_chars_letters(next_ch(Deref(t)), Append(ret, t.ch))
    ELSE [t |-> t, ret |-> ret]

RECURSIVE identifier_chars(_, _)
\* the loop while (is_identifier_char(ch)) of lex_directive and lex_identifier
identifier_chars(t, ret) ==
    IF is_identifier_char(t.ch)
    THEN identifier_chars(next_ch(Deref(t)), Append(ret, t.ch))
    ELSE [t |-> t, ret |-> ret]

\* lex_directive that drops the name
lex_directive_no_payload(t) ==
    LET r == identifier_chars(t, <<>>)
    IN  Return(r.t, "Directive", Monostate)

lex_directive(t) ==
    LET r == identifier_chars(t, <<>>)
    IN  Return(r.t, "Directive", Text(r.ret))

RECURSIVE letters(_, _)
\* the loop while (is_letter(ch)) that reads the condition
letters(t, ret) ==
    IF is_letter(t.ch)
    THEN letters(next_ch(Deref(t)), Append(ret, t.ch))
    ELSE [t |-> t, ret |-> ret]

\* lex_identifier that accepts a compare mnemonic without its condition
lex_identifier_bare(t, c) ==
    LET r == identifier_chars(t, <<c>>)
        ident == r.ret
        upper_ident == toupper(ident)
    IN  IF upper_ident \in mnemonics
        THEN Return(r.t, "Mnemonic", Text(upper_ident))
        ELSE IF upper_ident = S(<<"C","M","P">>) \/ upper_ident = S(<<"C","M","P","I">>)
        THEN IF r.t.ch # Ch["/"]
             THEN Return(r.t, "Mnemonic", Text(upper_ident))
             ELSE LET q == letters(next_ch(r.t), <<>>)
                      cond == q.ret
                      upper_cond == toupper(cond)
                  IN  IF upper_cond \notin conds
                      THEN Return(q.t, "Error",
                             Message("{} must be followed by a valid condition, {} is not a valid condition",
                                     <<ident, cond>>))
                      ELSE Return(q.t, "Mnemonic",
                             Text(upper_ident \o <<Ch["/"]>> \o upper_cond))
        ELSE Return(r.t, "Identifier", Text(ident))

lex_identifier(t, c) ==
    LET r == identifier_chars(t, <<c>>)
        ident == r.ret
        upper_ident == toupper(ident)
    IN  IF upper_ident \in mnemonics
        THEN Return(r.t, "Mnemonic", Text(upper_ident))
        ELSE IF upper_ident = S(<<"C","M","P">>) \/ upper_ident = S(<<"C","M","P","I">>)
        THEN IF r.t.ch # Ch["/"]
             THEN Return(r.t, "Error", Message("{} must be followed by /", <<ident>>))
             ELSE LET q == letters(next_ch(r.t), <<>>)
                      cond == q.ret
                      upper_cond == toupper(cond)
                  IN  IF upper_cond \notin conds
                      THEN Return(q.t, "Error",
                             Message("{} must be followed by a valid condition, {} is not a valid condition",
                                     <<ident, cond>>))
                      ELSE Return(q.t, "Mnemonic",
                             Text(upper_ident \o <<Ch["/"]>> \o upper_cond))
        ELSE Return(r.t, "Identifier", Text(ident))

\* the is_digit argument of numeric_fn, which goes with the radix
is_digit(radix, c) ==
    IF radix = 2 THEN is_binary_digit(c)
    ELSE IF radix = 8 THEN is_octal_digit(c)
    ELSE IF radix = 16 THEN is_hex_digit(c)
    ELSE is_decimal_digit(c)

RECURSIVE numeric_fn(_, _, _, _)
numeric_fn(t, value, radix, b) ==
    IF is_digit(radix, t.ch)
    THEN LET v == to_s64(value * radix + digit_value(t.ch))
             t1 == next_ch(Call_digit_value(Deref(t), t.ch))
         IN  IF b.overflow = "wrap" /\ v < 0
             THEN Return(t1, "Error", Message("number literal overflow", <<>>))
             ELSE numeric_fn(t1, v, radix, b)
    ELSE Return(t, "NumericLit", Integer(value))

lex_numerical(t, c, b) ==
    IF c = Ch["0"] /\ maybe_ch_or(t, Ch["b"], Ch["b"]).ok
    THEN numeric_fn(maybe_ch_or(t, Ch["b"], Ch["b"]).t, 0, 2, b)
    ELSE IF c = Ch["0"] /\ maybe_ch_or(t, Ch["o"], Ch["O"]).ok
    THEN numeric_fn(maybe_ch_or(t, Ch["o"], Ch["O"]).t, 0, 8, b)
    ELSE IF c = Ch["0"] /\ maybe_ch_or(t, Ch["x"], Ch["X"]).ok
    THEN numeric_fn(maybe_ch_or(t, Ch["x"], Ch["X"]).t, 0, 16, b)
    ELSE numeric_fn(Call_digit_value(t, c), digit_value(c), 10, b)

\* ------------------------------------------------------------------------
\* Tokenizer::next_token
\* ------------------------------------------------------------------------

\* one_or_two that leaves the second character in the input
one_or_two_keeps(t, c, two, one) ==
    IF maybe_ch(t, c).ok THEN Return(t, two, Monostate)
    ELSE Return(t, one, Monostate)

\* if (maybe_ch(c)) return make_token(two); return make_token(one);
one_or_two(t, c, two, one) ==
    IF maybe_ch(t, c).ok THEN Return(maybe_ch(t, c).t, two, Monostate)
    ELSE Return(t, one, Monostate)

\* equals_sign that takes a single = for the token of ==
equals_sign_lenient(t) ==
    IF maybe_ch(t, Ch["="]).ok
    THEN Return(maybe_ch(t, Ch["="]).t, "Equal", Monostate)
    ELSE Return(t, "Equal", Monostate)

\* lexer.cpp:162-166: case '='
equals_sign(t) ==
    IF maybe_ch(t, Ch["="]).ok
    THEN Return(maybe_ch(t, Ch["="]).t, "Equal", Monostate)
    ELSE Return(t, "Error", Message("Single equals sign is not a valid token", <<>>))

CanNewline(t) == [t EXCEPT !.can_newline = TRUE]

\* lexer.cpp:111-195: the switch on prev_ch and what follows it
dispatch(t, prev_ch, b) ==
    IF prev_ch = Ch["\""] THEN lex_translated_string(CanNewline(t), b)
    ELSE IF prev_ch = Ch["'"] THEN lex_char(CanNewline(t), b)
    ELSE IF prev_ch = Ch["backtick"] THEN lex_raw_string(CanNewline(t))
    ELSE IF prev_ch = Ch["@"]
    THEN IF maybe_ch(t, Ch["@"]).ok
         THEN Return(maybe_ch(t, Ch["@"]).t, "TokCat", Monostate)
         ELSE lex_directive(CanNewline(t))
    ELSE IF prev_ch = Ch[","] THEN Return(t, "Comma", Monostate)
    ELSE IF prev_ch = Ch["("] THEN Return(t, "LParen", Monostate)
    ELSE IF prev_ch = Ch[")"] THEN Return(CanNewline(t), "RParen", Monostate)
    ELSE IF prev_ch = Ch["+"] THEN Return(t, "Plus", Monostate)
    ELSE IF prev_ch = Ch["-"] THEN Return(t, "Minus", Monostate)
    ELSE IF prev_ch = Ch["*"] THEN Return(t, "Mul", Monostate)
    ELSE IF prev_ch = Ch["/"] THEN Return(t, "Div", Monostate)
    ELSE IF prev_ch = Ch["%"] THEN Return(t, "Mod", Monostate)
    ELSE IF prev_ch = Ch["^"] THEN Return(t, "Xor", Monostate)
    ELSE IF prev_ch = Ch["<"]
    THEN IF maybe_ch(t, Ch["<"]).ok
         THEN Return(maybe_ch(t, Ch["<"]).t, "ShLeft", Monostate)
         ELSE one_or_two(t, Ch["="], "LessEqual", "Less")
    ELSE IF prev_ch = Ch[">"]
    THEN IF maybe_ch(t, Ch[">"]).ok
         THEN Return(maybe_ch(t, Ch[">"]).t, "ShRight", Monostate)
         ELSE one_or_two(t, Ch["="], "GreaterEqual", "Greater")
    ELSE IF prev_ch = Ch["="]
    THEN equals_sign(t)
    ELSE IF prev_ch = Ch["!"] THEN one_or_two(t, Ch["="], "NotEqual", "LogicNot")
    ELSE IF prev_ch = Ch["~"] THEN Return(t, "BitNot", Monostate)
    ELSE IF prev_ch = Ch["&"] THEN one_or_two(t, Ch["&"], "LogicAnd", "BitAnd")
    ELSE IF prev_ch = Ch["|"] THEN one_or_two(t, Ch["|"], "LogicOr", "BitOr")
    ELSE IF is_decimal_digit(prev_ch) THEN lex_numerical(CanNewline(t), prev_ch, b)
    ELSE IF is_identifier_char(prev_ch) THEN lex_identifier(CanNewline(t), prev_ch)
    ELSE Return(t, "Error", Message("Unknown character", <<>>))

\* begin_token that keeps the text of the token before
begin_token_no_clear(t) == [t EXCEPT !.pos = t.ch_pos]

\* lexer.cpp:88-89: the token starts at the lookahead
begin_token(t) == [t EXCEPT !.pos = t.ch_pos, !.source_code = <<>>]

\* at_newline that does not look at can_newline
at_newline_always(t) ==
    Return(next_ch(t), "NewLine", Monostate) @@ [again |-> FALSE]

\* lexer.cpp:91-97: the lookahead is a newline.  again is the tail call
\* return next_token(), which returns no token of its own.
at_newline(t) ==
    LET t1 == next_ch(t)
    IN  IF t1.can_newline
        THEN Return(t1, "NewLine", Monostate) @@ [again |-> FALSE]
        ELSE [t |-> t1, again |-> TRUE]

\* at_end_of_input that consumes, as at_newline does
at_end_of_input_consumes(t) ==
    IF t.can_newline
    THEN Return([next_ch(t) EXCEPT !.can_newline = FALSE], "NewLine", Monostate)
           @@ [again |-> FALSE]
    ELSE Return(next_ch(t), "EndOfFile", Monostate) @@ [again |-> FALSE]

\* at_end_of_input that leaves can_newline set
at_end_of_input_keeps_flag(t) ==
    IF t.can_newline
    THEN Return(t, "NewLine", Monostate) @@ [again |-> FALSE]
    ELSE Return(t, "EndOfFile", Monostate) @@ [again |-> FALSE]

\* lexer.cpp:99-105: there is no lookahead
at_end_of_input(t) ==
    IF t.can_newline
    THEN Return([t EXCEPT !.can_newline = FALSE], "NewLine", Monostate)
           @@ [again |-> FALSE]
    ELSE Return(t, "EndOfFile", Monostate) @@ [again |-> FALSE]

\* at_character that leaves can_newline as the token before left it
at_character_keeps_flag(t, b) ==
    LET prev_ch == t.ch
    IN  dispatch(next_ch(Deref(t)), prev_ch, b) @@ [again |-> FALSE]

\* lexer.cpp:107-110 and the switch
at_character(t, b) ==
    LET t1 == [t EXCEPT !.can_newline = FALSE]
        prev_ch == t1.ch
    IN  dispatch(next_ch(Deref(t1)), prev_ch, b) @@ [again |-> FALSE]

\* lexer.cpp:88-196: next_token from the assignment pos = ch_pos on
scan(t, b) ==
    IF begin_token(t).ch = Ch["\n"] THEN at_newline(begin_token(t))
    ELSE IF begin_token(t).ch = NullOpt THEN at_end_of_input(begin_token(t))
    ELSE at_character(begin_token(t), b)

\* ------------------------------------------------------------------------
\* The inputs
\* ------------------------------------------------------------------------

Alphabet ==
    { Ch[c] : c \in {" ", "\n", ";", "a", "+", ")", "\"", "'", "\\", "0",
                     "=", "#", "@"} }

\* the inputs of lexer_tests.cpp, and inputs longer than MaxLen
Samples ==
    { S(<<"@","d","e","f"," ","f","o","o"," ","f","o","o","+","3","*","4",
          "-","a","^","b","=","=","1">>),
      S(<<"c","m","p","i","/","e","q"," ","r","0",","," ","3","4">>),
      S(<<"a",","," ",";","c","\n","\n","b","b","(",")","\n","\n">>),
      S(<<"'","a","b"," ","+">>),
      S(<<"9","9","9"," ","backtick","a">>),
      S(<<"\"","a","\\","x","\"">>),
      S(<<"'","a","'","'","\n","backtick","x","backtick"," ","0","x","1","f",
          " ","\"","\\">>) }

Inputs == UNION { [1..n -> Alphabet] : n \in 0..MaxLen } \cup Samples

\* ------------------------------------------------------------------------
\* State
\* ------------------------------------------------------------------------

VARIABLES
    t,      \* the StringTokenizer
    pc,     \* where the caller is: between calls ("idle") or inside next_token
    out,    \* the tokens next_token has returned so far
    spans   \* for each token of out, the input consumed before and after it

vars == <<t, pc, out, spans>>

\* the number of input characters consumed, the lookahead not counted
Consumed(tk) == IF tk.ch = NullOpt THEN tk.index ELSE tk.index - 1

\* the calls that have returned EndOfFile
EofCalls(toks) == Cardinality({ i \in 1..Len(toks) : toks[i].type = "EndOfFile" })

Init ==
    /\ \E str \in Inputs : t = StringTokenizer(str)
    /\ pc = "idle"
    /\ out = <<>>
    /\ spans = <<>>

\* the caller calls next_token
Call ==
    /\ pc = "idle"
    /\ t.fault = "none"
    /\ Len(out) < MaxCalls
    /\ EofCalls(out) < MaxEofCalls
    /\ pc' = "whitespace"
    /\ UNCHANGED <<t, out, spans>>

\* lexer.cpp:76-79, one iteration
SkipWhitespace ==
    /\ pc = "whitespace"
    /\ is_whitespace(t.ch)
    /\ t' = advance(t)
    /\ UNCHANGED <<pc, out, spans>>

\* lexer.cpp:76 and 81: the loop ends, and the comment loop is entered or not
EndWhitespace ==
    /\ pc = "whitespace"
    /\ ~is_whitespace(t.ch)
    /\ pc' = IF t.ch = Ch[";"] THEN "comment" ELSE "scan"
    /\ UNCHANGED <<t, out, spans>>

\* lexer.cpp:83-85, one iteration
SkipComment ==
    /\ pc = "comment"
    /\ t.ch # Ch["\n"]
    /\ t' = advance(t)
    /\ UNCHANGED <<pc, out, spans>>

\* lexer.cpp:83: the loop ends
EndComment ==
    /\ pc = "comment"
    /\ t.ch = Ch["\n"]
    /\ pc' = "scan"
    /\ UNCHANGED <<t, out, spans>>

\* lexer.cpp:88-196: the token is read and returned, or next_token starts over
Scan ==
    /\ pc = "scan"
    /\ \E b \in Builds :
         LET r == scan(t, b)
         IN  /\ t' = r.t
             /\ IF r.again
                THEN /\ pc' = "whitespace"
                     /\ UNCHANGED <<out, spans>>
                ELSE /\ pc' = "idle"
                     /\ out' = Append(out, r.tok)
                     /\ spans' = Append(spans, [from |-> Consumed(t),
                                                to |-> Consumed(r.t)])

Next ==
    \/ Call
    \/ SkipWhitespace
    \/ EndWhitespace
    \/ SkipComment
    \/ EndComment
    \/ Scan

Spec == Init /\ [][Next]_vars

\* A call that has started goes on: each loop takes its next iteration or
\* ends, and the scan is carried out.  Scan is the only step at pc = "scan",
\* is always possible there and always leaves it, so that its weak fairness
\* WF_vars(Scan) is []<>(pc # "scan").
FairSpec ==
    /\ Spec
    /\ WF_vars(SkipWhitespace)
    /\ WF_vars(EndWhitespace)
    /\ WF_vars(SkipComment)
    /\ WF_vars(EndComment)
    /\ []<>(pc # "scan")

\* ------------------------------------------------------------------------
\* Inputs made of words, for the tokens of several characters
\* ------------------------------------------------------------------------

\* the number of words of such an input
MaxWords == 3

RECURSIVE Join(_)
\* the words of ws one after the other
Join(ws) == IF ws = <<>> THEN <<>> ELSE Head(ws) \o Join(Tail(ws))

WordInputs(words) ==
    { Join(ws) : ws \in UNION { [1..n -> words] : n \in 0..MaxWords } }

\* the start of a call: a tokenizer constructed over one of the inputs
InitOver(inputs) ==
    /\ \E str \in inputs : t = StringTokenizer(str)
    /\ pc = "idle"
    /\ out = <<>>
    /\ spans = <<>>

\* compare mnemonics, conditions, a plain mnemonic, directives, identifiers
MnemonicWords ==
    { S(<<"c","m","p">>), S(<<"C","m","P","i">>), S(<<"/">>), S(<<"e","q">>),
      S(<<"N","e">>), S(<<"x">>), S(<<"1">>), S(<<"_">>), S(<<".">>),
      S(<<"@">>), S(<<"a","D","d">>), S(<<"c","m","p","/">>),
      S(<<" ">>), S(<<";">>), S(<<"\n">>) }

MnemonicSpec == InitOver(WordInputs(MnemonicWords)) /\ [][Next]_vars

\* radix prefixes in both cases and digits of every radix
NumericWords ==
    { S(<<"0","b">>), S(<<"0","B">>), S(<<"0","o">>), S(<<"0","O">>),
      S(<<"0","x">>), S(<<"0","X">>), S(<<"0">>), S(<<"1">>), S(<<"7">>),
      S(<<"9">>), S(<<"a">>), S(<<"F">>), S(<<" ">>), S(<<";">>),
      S(<<"\n">>) }

NumericSpec == InitOver(WordInputs(NumericWords)) /\ [][Next]_vars

\* quotes, a backslash, escape sequences right and wrong, an octal digit,
\* whole literals
LiteralWords ==
    { S(<<"'">>), S(<<"\"">>), S(<<"\\">>), S(<<"a">>), S(<<"7">>),
      S(<<"\\","n">>), S(<<"\\","\"">>), S(<<"\\","'">>), S(<<"\\","x">>),
      S(<<"\\","3","7","7">>), S(<<"'","a","'">>), S(<<"\"","a">>),
      S(<<"'","\\","3","7","7","'">>),
      S(<<" ">>), S(<<";">>), S(<<"\n">>) }

LiteralSpec == InitOver(WordInputs(LiteralWords)) /\ [][Next]_vars

\* backticks and what a raw string takes as it is
RawWords ==
    { S(<<"backtick">>), S(<<"\\">>), S(<<"\"">>), S(<<"a">>),
      S(<<"backtick","\\","\"">>), S(<<"'">>),
      S(<<" ">>), S(<<";">>), S(<<"\n">>) }

RawSpec == InitOver(WordInputs(RawWords)) /\ [][Next]_vars

\* a string that starts with a backslash, and what can follow the backslash
EscapeWords ==
    { S(<<"\"","\\">>), S(<<"\"">>), S(<<"\\">>), S(<<"a">>), S(<<"b">>),
      S(<<"f">>), S(<<"n">>), S(<<"r">>), S(<<"t">>), S(<<"v">>), S(<<"'">>),
      S(<<"x">>), S(<<" ">>), S(<<";">>), S(<<"\n">>) }

EscapeSpec == InitOver(WordInputs(EscapeWords)) /\ [][Next]_vars

\* a string that starts with an octal escape, and digits to go on with
OctalWords ==
    { S(<<"\"","\\">>), S(<<"\"","\\","3">>), S(<<"\"","\\","4","0">>),
      S(<<"0">>), S(<<"4">>), S(<<"7">>), S(<<"7","7">>), S(<<"8">>),
      S(<<"\"">>), S(<<" ">>), S(<<";">>), S(<<"\n">>) }

OctalSpec == InitOver(WordInputs(OctalWords)) /\ [][Next]_vars

\* the characters of the operators of one or two characters
OperatorWords ==
    { S(<<"<">>), S(<<">">>), S(<<"=">>), S(<<"!">>), S(<<"&">>), S(<<"|">>),
      S(<<"@">>), S(<<"a">>), S(<<" ">>), S(<<";">>), S(<<"\n">>) }

OperatorSpec == InitOver(WordInputs(OperatorWords)) /\ [][Next]_vars

\* characters that start no token, and some that do
UnknownWords ==
    { S(<<"#">>), S(<<"$">>), S(<<"?">>), S(<<":">>), S(<<"[">>), S(<<"]">>),
      S(<<"{">>), S(<<"}">>), S(<<"\\">>), S(<<"a">>), S(<<"1">>),
      S(<<" ">>), S(<<";">>), S(<<"\n">>) }

UnknownSpec == InitOver(WordInputs(UnknownWords)) /\ [][Next]_vars

\* tokens after which a newline counts or not, and the newline
NewlineWords ==
    { S(<<"@","@">>), S(<<"=">>), S(<<"#">>), S(<<"+">>), S(<<",">>),
      S(<<"(">>), S(<<"\"">>), S(<<"'","a">>), S(<<"backtick">>),
      S(<<"9","9","9">>), S(<<"c","m","p">>), S(<<" ">>), S(<<";">>),
      S(<<"\n">>) }

NewlineSpec == InitOver(WordInputs(NewlineWords)) /\ [][Next]_vars

\* ------------------------------------------------------------------------
\* Vocabulary of the properties
\* ------------------------------------------------------------------------

Last(seq) == seq[Len(seq)]

\* the input of the tokenizer
Input == t.str

\* the input characters between positions from+1 and to
Slice(from, to) == SubSeq(Input, from + 1, to)

\* the input consumed between token i and token i+1 without being part of either
Gap(i) == Slice(spans[i].to, spans[i + 1].from)

\* character k of g is a space, a tab, a carriage return, a newline, or a
\* character of a comment
Skipped(g, k) ==
    \/ is_whitespace(g[k])
    \/ g[k] = Ch["\n"]
    \/ \E j \in 1..k : g[j] = Ch[";"] /\ \A m \in j..k : g[m] # Ch["\n"]

AllSkipped(g) == \A k \in 1..Len(g) : Skipped(g, k)

\* token i starts at an input character, not at end-of-input
StartsAtCharacter(i) == spans[i].from < Len(Input)

\* line and column of the input character number k
LineOf(k) == 1 + Cardinality({ j \in 1..(k - 1) : Input[j] = Ch["\n"] })

ColumnOf(k) ==
    LET newlines == { j \in 1..(k - 1) : Input[j] = Ch["\n"] }
        last == IF newlines = {} THEN 0
                ELSE CHOOSE j \in newlines : \A m \in newlines : m <= j
    IN  k - last

\* NewLine for no newline character, at end-of-input
Synthetic(tok) == tok.type = "NewLine" /\ tok.source_code = <<>>

\* the operator and punctuation tokens after which a line continues
ContinuationTypes ==
    { "Comma", "LParen", "Plus", "Minus", "Mul", "Div", "Mod", "Xor", "ShLeft",
      "LessEqual", "Less", "ShRight", "GreaterEqual", "Greater", "Equal",
      "NotEqual", "LogicNot", "BitNot", "LogicAnd", "BitAnd", "LogicOr",
      "BitOr", "TokCat" }

TextTypes == { "Identifier", "Mnemonic", "Directive", "StringLit", "Error" }

\* ------------------------------------------------------------------------
\* Properties
\* ------------------------------------------------------------------------

\* C1: once next_token has returned EndOfFile, every later call returns the
\* same EndOfFile token (same position, empty source_text), and no step
\* changes the lookahead, the position or can_newline.
C1_EndOfFileAbsorbing ==
    [][ (Len(out) > 0 /\ Last(out).type = "EndOfFile")
          => /\ t'.ch = t.ch
             /\ t'.ch_pos = t.ch_pos
             /\ t'.can_newline = t.can_newline
             /\ out' # out => /\ out' = Append(out, Last(out))
                              /\ Last(out').source_code = <<>> ]_vars

\* EndOfFile has been returned by two calls in a row
C1_Witness ==
    /\ Len(out) >= 2
    /\ out[Len(out) - 1].type = "EndOfFile"
    /\ Last(out).type = "EndOfFile"

\* C2: every call of next_token returns: a call that has started is
\* followed by the state between calls.
C2_EveryCallReturns == (pc # "idle") ~> (pc = "idle")

\* C3: no two consecutive tokens are both NewLine.
C3_NoConsecutiveNewLine ==
    \A i \in 1..(Len(out) - 1) :
        ~(out[i].type = "NewLine" /\ out[i + 1].type = "NewLine")

\* C4: at end-of-input with can_newline set the call returns a NewLine at
\* the current position with empty source_text and clears can_newline; every
\* token after such a NewLine is EndOfFile; and the tokens of the empty
\* input are that NewLine and then EndOfFile only.
C4_SyntheticNewLineOnce ==
    /\ [][ (pc = "scan" /\ t.ch = NullOpt /\ t.can_newline)
             => /\ out' = Append(out, [pos |-> t.ch_pos, type |-> "NewLine",
                                       payload |-> Monostate,
                                       source_code |-> <<>>])
                /\ t'.can_newline = FALSE
                /\ t'.ch = NullOpt
                /\ t'.ch_pos = t.ch_pos ]_vars
    /\ [](\A i \in 1..Len(out) :
            Synthetic(out[i]) =>
                \A j \in (i + 1)..Len(out) : out[j].type = "EndOfFile")
    /\ [](Input = <<>> =>
            \A i \in 1..Len(out) :
                IF i = 1 THEN Synthetic(out[i]) ELSE out[i].type = "EndOfFile")

\* the empty input has given NewLine, EndOfFile, EndOfFile
C4_Witness ==
    /\ Input = <<>>
    /\ Len(out) >= 3
    /\ Synthetic(out[1])

\* C5: after an operator, comma or ( token the next token is never NewLine;
\* what is consumed between the two tokens is only spaces, tabs, carriage
\* returns, comments and newlines, so the next token is the first one found.
C5_LineContinuation ==
    \A i \in 1..(Len(out) - 1) :
        out[i].type \in ContinuationTypes =>
            /\ out[i + 1].type # "NewLine"
            /\ AllSkipped(Gap(i))
            /\ spans[i + 1].from >= spans[i].to

\* a comma, then a space, a comment and two newlines, then the next token
C5_Witness ==
    \E i \in 1..(Len(out) - 1) :
        /\ out[i].type = "Comma"
        /\ Gap(i) = S(<<" ", ";", "c", "\n", "\n">>)
        /\ out[i + 1].type = "Identifier"

\* C6: a token that starts at an input character has the line and column of
\* that character, counted from line 1, column 1, in file "(unknown)".
C6_TokenPosition ==
    \A i \in 1..Len(out) :
        StartsAtCharacter(i) =>
            /\ out[i].pos.line = LineOf(spans[i].from + 1)
            /\ out[i].pos.column = ColumnOf(spans[i].from + 1)
            /\ out[i].pos.filename = "(unknown)"

\* a token on the third line, not in its first column
C6_Witness ==
    \E i \in 1..Len(out) :
        /\ StartsAtCharacter(i)
        /\ out[i].pos.line = 3
        /\ out[i].pos.column > 1

\* C7: the source_text of a token is the input consumed for it, which
\* starts at a character that is neither whitespace nor the start of a
\* comment; the NewLine and EndOfFile of end-of-input have none.
C7_SourceText ==
    \A i \in 1..Len(out) :
        /\ out[i].source_code = Slice(spans[i].from, spans[i].to)
        /\ StartsAtCharacter(i) =>
              /\ out[i].source_code # <<>>
              /\ ~is_whitespace(out[i].source_code[1])
              /\ out[i].source_code[1] # Ch[";"]
        /\ ~StartsAtCharacter(i) =>
              /\ out[i].type \in {"NewLine", "EndOfFile"}
              /\ out[i].source_code = <<>>

\* a token of several characters after skipped whitespace and a comment
C7_Witness ==
    \E i \in 2..Len(out) :
        /\ Len(out[i].source_code) >= 2
        /\ Len(out[i - 1].source_code) >= 1
        /\ \E k \in 1..Len(Gap(i - 1)) : Gap(i - 1)[k] = Ch[";"]

\* C8: the payload kind goes with the type: text for Identifier, Mnemonic,
\* Directive, StringLit and Error, an integer for NumericLit, none otherwise.
C8_PayloadKind ==
    \A i \in 1..Len(out) :
        out[i].payload.kind =
            IF out[i].type \in TextTypes THEN "text"
            ELSE IF out[i].type = "NumericLit" THEN "integer"
            ELSE "none"

\* tokens of all three payload kinds have been returned
C8_Witness ==
    /\ \E i \in 1..Len(out) : out[i].type = "Directive"
    /\ \E i \in 1..Len(out) : out[i].type = "NumericLit"
    /\ \E i \in 1..Len(out) : out[i].type = "Equal"

\* C9: the process never aborts: digit_value is only called with a hex
\* digit and the lookahead is only dereferenced when there is one.
C9_NoAbort == t.fault = "none"

\* a hexadecimal literal with a letter digit has been read, and the input
\* has ended inside a literal
C9_Witness ==
    /\ \E i \in 1..Len(out) :
          /\ out[i].type = "NumericLit"
          /\ out[i].source_code = S(<<"0", "x", "1", "f">>)
          /\ out[i].payload.integer = 31
    /\ \E i \in 1..Len(out) :
          /\ out[i].type = "Error"
          /\ out[i].source_code = S(<<"\"", "\\">>)
          /\ spans[i].to = Len(Input)

\* C10: an Error token covers all the input consumed for it, and the next
\* token starts after it with only whitespace, comments and newlines in
\* between: nothing is dropped and nothing is read twice.
C10_ResumeAfterError ==
    \A i \in 1..Len(out) :
        out[i].type = "Error" =>
            /\ Len(out[i].source_code) = spans[i].to - spans[i].from
            /\ \A k \in 1..Len(out[i].source_code) :
                   out[i].source_code[k] = Input[spans[i].from + k]
            /\ i < Len(out) =>
                  /\ spans[i + 1].from >= spans[i].to
                  /\ AllSkipped(Gap(i))
                  /\ StartsAtCharacter(i + 1) =>
                        out[i + 1].source_code[1] = Input[spans[i + 1].from + 1]

\* an Error of more than one character, and a token read right after it
C10_Witness ==
    \E i \in 1..(Len(out) - 1) :
        /\ out[i].type = "Error"
        /\ Len(out[i].source_code) >= 2
        /\ StartsAtCharacter(i + 1)
        /\ out[i + 1].type \notin {"NewLine", "Error"}

\* ------------------------------------------------------------------------
\* Vocabulary of the properties about identifiers, mnemonics and directives
\* ------------------------------------------------------------------------

Letters == (Ch["a"]..Ch["z"]) \cup (Ch["A"]..Ch["Z"])

Digits == Ch["0"]..Ch["9"]

IdentifierChars == Letters \cup Digits \cup {Ch["."], Ch["_"]}

\* the input character number k, or NullOpt after the end
At(k) == IF k >= 1 /\ k <= Len(Input) THEN Input[k] ELSE NullOpt

\* the longest run of characters of set in the input from position p on
RunFrom(p, set) ==
    LET n == CHOOSE n \in 0..(Len(Input) - p + 1) :
                 /\ \A k \in p..(p + n - 1) : Input[k] \in set
                 /\ At(p + n) \notin set
    IN  SubSeq(Input, p, p + n - 1)

\* the text in upper case
Upper(str) ==
    [k \in 1..Len(str) |->
        IF str[k] \in Ch["a"]..Ch["z"] THEN str[k] - 32 ELSE str[k]]

\* the input position at which token i starts
StartOf(i) == spans[i].from + 1

CompareMnemonics == { S(<<"C","M","P">>), S(<<"C","M","P","I">>) }

\* token i is of this type, with this text as payload, made of this input
IsTextToken(i, type, text, source) ==
    /\ out[i].type = type
    /\ out[i].payload = Text(text)
    /\ out[i].source_code = source

\* ------------------------------------------------------------------------
\* Properties of identifiers, mnemonics and directives
\* ------------------------------------------------------------------------

\* C11: a token that starts with . or with a single @ is a Directive whose
\* payload is the run of identifier characters after the prefix, at the
\* position of the prefix.
C11_Directive ==
    \A i \in 1..Len(out) :
        (/\ StartsAtCharacter(i)
         /\ \/ At(StartOf(i)) = Ch["."]
            \/ At(StartOf(i)) = Ch["@"] /\ At(StartOf(i) + 1) # Ch["@"])
        => /\ IsTextToken(i, "Directive",
                          RunFrom(StartOf(i) + 1, IdentifierChars),
                          <<At(StartOf(i))>>
                              \o RunFrom(StartOf(i) + 1, IdentifierChars))
           /\ out[i].pos.line = LineOf(StartOf(i))
           /\ out[i].pos.column = ColumnOf(StartOf(i))

\* C12: CMP or CMPI in any case, then /, then an identifier that is a
\* condition in any case, is one Mnemonic with the upper case text as
\* payload and the text as written as source_text.
C12_CompareMnemonic ==
    \A i \in 1..Len(out) :
        LET name == RunFrom(StartOf(i), IdentifierChars)
            slash == StartOf(i) + Len(name)
            cond == RunFrom(slash + 1, IdentifierChars)
        IN  (/\ StartsAtCharacter(i)
             /\ Upper(name) \in CompareMnemonics
             /\ At(slash) = Ch["/"]
             /\ Upper(cond) \in conds)
            => IsTextToken(i, "Mnemonic",
                           Upper(name) \o <<Ch["/"]>> \o Upper(cond),
                           name \o <<Ch["/"]>> \o cond)

\* CmPi/eq has been read as CMPI/EQ
C12_Witness ==
    \E i \in 1..Len(out) :
        /\ out[i].type = "Mnemonic"
        /\ out[i].source_code = S(<<"C","m","P","i","/","e","q">>)
        /\ out[i].payload = Text(S(<<"C","M","P","I","/","E","Q">>))

\* C13: CMP or CMPI in any case that is not followed by /, or whose / is
\* not followed by letters that make a condition, is an Error token that
\* covers the name, and the / and the letters if there: there is no
\* Mnemonic and no Identifier for it.
C13_NoBareCompare ==
    \A i \in 1..Len(out) :
        LET name == RunFrom(StartOf(i), IdentifierChars)
            slash == StartOf(i) + Len(name)
            cond == RunFrom(slash + 1, Letters)
        IN  (/\ StartsAtCharacter(i)
             /\ Upper(name) \in CompareMnemonics)
            => /\ At(slash) # Ch["/"]
                  => /\ out[i].type = "Error"
                     /\ out[i].payload.kind = "text"
                     /\ out[i].source_code = name
               /\ (At(slash) = Ch["/"] /\ Upper(cond) \notin conds)
                  => /\ out[i].type = "Error"
                     /\ out[i].payload.kind = "text"
                     /\ out[i].source_code = name \o <<Ch["/"]>> \o cond

\* a compare mnemonic without /, one with / and nothing, and one with / and
\* letters that are no condition have each been read
C13_Witness ==
    \E i \in 1..Len(out) :
        /\ out[i].type = "Error"
        /\ out[i].source_code \in
             { S(<<"c","m","p">>), S(<<"C","m","P","i","/">>),
               S(<<"c","m","p","/","e","q","x">>) }
        /\ Len(out) > i

\* C14: a run of identifier characters that starts with a letter or _ is a
\* Mnemonic with the upper case text if that is a plain mnemonic, and an
\* Identifier with the text as written if it is no mnemonic at all.
C14_MnemonicOrIdentifier ==
    \A i \in 1..Len(out) :
        LET name == RunFrom(StartOf(i), IdentifierChars)
        IN  (/\ StartsAtCharacter(i)
             /\ At(StartOf(i)) \in Letters \cup {Ch["_"]})
            => /\ Upper(name) \in mnemonics
                  => IsTextToken(i, "Mnemonic", Upper(name), name)
               /\ Upper(name) \notin mnemonics \cup CompareMnemonics
                  => IsTextToken(i, "Identifier", name, name)

\* aDd has been read as the mnemonic ADD and an identifier with a capital,
\* a digit or a dot in it has been read as it is
C14_Witness ==
    /\ \E i \in 1..Len(out) :
          IsTextToken(i, "Mnemonic", S(<<"A","D","D">>), S(<<"a","D","d">>))
    /\ \E i \in 1..Len(out) :
          /\ out[i].type = "Identifier"
          /\ Len(out[i].payload.text) >= 2
          /\ out[i].payload.text # Upper(out[i].payload.text)

\* ------------------------------------------------------------------------
\* Vocabulary of the properties about numeric literals
\* ------------------------------------------------------------------------

\* the digits of a radix
RadixDigits(radix) ==
    IF radix = 2 THEN {Ch["0"], Ch["1"]}
    ELSE IF radix = 8 THEN Ch["0"]..Ch["7"]
    ELSE IF radix = 16
    THEN Digits \cup (Ch["a"]..Ch["f"]) \cup (Ch["A"]..Ch["F"])
    ELSE Digits

\* the value of one digit
DigitValueOf(c) ==
    IF c \in Digits THEN c - Ch["0"]
    ELSE IF c \in Ch["a"]..Ch["f"] THEN 10 + (c - Ch["a"])
    ELSE 10 + (c - Ch["A"])

RECURSIVE ValueOf(_, _)
\* the value of a sequence of digits in a radix, as a mathematical integer
ValueOf(digits, radix) ==
    IF digits = <<>> THEN 0
    ELSE ValueOf(SubSeq(digits, 1, Len(digits) - 1), radix) * radix
             + DigitValueOf(digits[Len(digits)])

\* the largest value of the signed integer type
MaxInt == 2 ^ (IntBits - 1) - 1

\* the radix a prefix letter stands for
RadixOf(c) ==
    IF c \in {Ch["b"], Ch["B"]} THEN 2
    ELSE IF c \in {Ch["o"], Ch["O"]} THEN 8
    ELSE 16

LowerPrefixes == {Ch["b"], Ch["o"], Ch["x"]}

UpperPrefixes == {Ch["B"], Ch["O"], Ch["X"]}

\* token i starts at a 0 followed by a prefix letter of this set and then by
\* at least one digit of its radix
IsPrefixed(i, prefixes) ==
    /\ StartsAtCharacter(i)
    /\ At(StartOf(i)) = Ch["0"]
    /\ At(StartOf(i) + 1) \in prefixes
    /\ At(StartOf(i) + 2) \in RadixDigits(RadixOf(At(StartOf(i) + 1)))

\* token i starts at a decimal digit that no prefix letter follows
IsDecimal(i) ==
    /\ StartsAtCharacter(i)
    /\ At(StartOf(i)) \in Digits
    /\ ~(/\ At(StartOf(i)) = Ch["0"]
         /\ At(StartOf(i) + 1) \in LowerPrefixes \cup UpperPrefixes)

\* the digits of the prefixed literal at which token i starts
PrefixedDigits(i) ==
    RunFrom(StartOf(i) + 2, RadixDigits(RadixOf(At(StartOf(i) + 1))))

PrefixedValue(i) == ValueOf(PrefixedDigits(i), RadixOf(At(StartOf(i) + 1)))

\* the prefixed literal at which token i starts
PrefixedText(i) ==
    <<At(StartOf(i)), At(StartOf(i) + 1)>> \o PrefixedDigits(i)

DecimalDigits(i) == RunFrom(StartOf(i), Digits)

DecimalValue(i) == ValueOf(DecimalDigits(i), 10)

\* token i is a NumericLit of this value made of this input
IsNumericLit(i, value, source) ==
    /\ out[i].type = "NumericLit"
    /\ out[i].payload = Integer(value)
    /\ out[i].source_code = source

IsOverflowError(i) ==
    /\ out[i].type = "Error"
    /\ out[i].payload = Message("number literal overflow", <<>>)

\* ------------------------------------------------------------------------
\* Properties of numeric literals
\* ------------------------------------------------------------------------

\* C15: a literal of decimal digits, or of 0b, 0o or 0x and digits of the
\* radix, whose value fits the signed integer, is one NumericLit with the
\* value of the digits in the radix and the whole literal as source_text.
C15_NumericValue ==
    \A i \in 1..Len(out) :
        /\ (IsDecimal(i) /\ DecimalValue(i) <= MaxInt)
           => IsNumericLit(i, DecimalValue(i), DecimalDigits(i))
        /\ (IsPrefixed(i, LowerPrefixes) /\ PrefixedValue(i) <= MaxInt)
           => IsNumericLit(i, PrefixedValue(i), PrefixedText(i))

\* 0x7F, with a digit that is a capital letter, has been read as 127
C15_Witness ==
    \E i \in 1..Len(out) :
        /\ IsPrefixed(i, LowerPrefixes)
        /\ PrefixedValue(i) <= MaxInt
        /\ IsNumericLit(i, 7 * 16 + 15, S(<<"0","x","7","F">>))

\* C16: 0B, 0O and 0X select radix 2, 8 and 16 as 0b, 0o and 0x do: the
\* literal is one NumericLit with the value of its digits in the radix.
C16_UpperCasePrefix ==
    \A i \in 1..Len(out) :
        (IsPrefixed(i, UpperPrefixes) /\ PrefixedValue(i) <= MaxInt)
        => IsNumericLit(i, PrefixedValue(i), PrefixedText(i))

\* C17: a literal whose value is more than the signed integer can hold is
\* never a NumericLit: it is the Error "number literal overflow", in every
\* radix.
C17_OverflowIsError ==
    \A i \in 1..Len(out) :
        /\ (IsDecimal(i) /\ DecimalValue(i) > MaxInt) => IsOverflowError(i)
        /\ (IsPrefixed(i, LowerPrefixes) /\ PrefixedValue(i) > MaxInt)
           => IsOverflowError(i)

\* ------------------------------------------------------------------------
\* Vocabulary of the properties about character and string literals
\* ------------------------------------------------------------------------

OctalDigits == Ch["0"]..Ch["7"]

\* the escape letters and what they stand for
EscapeValue ==
    (Ch["a"] :> 7) @@ (Ch["b"] :> 8) @@ (Ch["f"] :> 12) @@ (Ch["n"] :> 10)
    @@ (Ch["r"] :> 13) @@ (Ch["t"] :> 9) @@ (Ch["v"] :> 11)
    @@ (Ch["\\"] :> 92) @@ (Ch["'"] :> 39) @@ (Ch["\""] :> 34)

\* the character, plain or escaped, that is written at input position p:
\* whether there is one, its value, and how many input characters it takes
DecodedAt(p) ==
    IF At(p) = NullOpt THEN [ok |-> FALSE, value |-> 0, len |-> 0]
    ELSE IF At(p) # Ch["\\"] THEN [ok |-> TRUE, value |-> At(p), len |-> 1]
    ELSE IF At(p + 1) \in DOMAIN EscapeValue
    THEN [ok |-> TRUE, value |-> EscapeValue[At(p + 1)], len |-> 2]
    ELSE IF At(p + 1) \in OctalDigits
    THEN LET digits == RunFrom(p + 1, OctalDigits)
         IN  [ok |-> ValueOf(digits, 8) < 256,
              value |-> ValueOf(digits, 8),
              len |-> 1 + Len(digits)]
    ELSE [ok |-> FALSE, value |-> 0, len |-> 1]

RECURSIVE DecodedString(_, _)
\* the string written from input position p up to the next quote that is
\* not escaped: whether there is one, its characters, and where the quote is
DecodedString(p, str) ==
    IF At(p) = Ch["\""] THEN [ok |-> TRUE, str |-> str, close |-> p]
    ELSE IF ~DecodedAt(p).ok THEN [ok |-> FALSE, str |-> str, close |-> p]
    ELSE DecodedString(p + DecodedAt(p).len, Append(str, DecodedAt(p).value))

\* the characters as bytes, whether char is signed or not
Bytes(str) == [k \in 1..Len(str) |-> str[k] % 256]

IsErrorToken(i, msg) ==
    /\ out[i].type = "Error"
    /\ out[i].payload = Message(msg, <<>>)

\* ------------------------------------------------------------------------
\* Properties of character and string literals
\* ------------------------------------------------------------------------

\* C18: a quote, one character or escape sequence, and a closing quote is
\* a NumericLit with the value of the character, made of exactly those
\* characters; if no quote follows the character it is the Error "character
\* literal can only contain single character", and if there is no character
\* or the escape is wrong it is the Error "invalid character".
C18_CharacterLiteral ==
    \A i \in 1..Len(out) :
        LET c == DecodedAt(StartOf(i) + 1)
            close == StartOf(i) + 1 + c.len
        IN  (StartsAtCharacter(i) /\ At(StartOf(i)) = Ch["'"])
            => /\ (c.ok /\ At(close) = Ch["'"])
                  => /\ out[i].type = "NumericLit"
                     /\ out[i].payload.kind = "integer"
                     /\ out[i].payload.integer % 256 = c.value % 256
                     /\ out[i].source_code = SubSeq(Input, StartOf(i), close)
               /\ (c.ok /\ At(close) # Ch["'"])
                  => IsErrorToken(i,
                       "character literal can only contain single character")
               /\ ~c.ok => IsErrorToken(i, "invalid character")

\* C19: a string of plain characters and escape sequences up to its closing
\* quote is one StringLit with the decoded characters as payload, made of the
\* input from the opening to the closing quote; if the input ends or an
\* escape is wrong before the closing quote, the token is the Error "invalid
\* character in string".
C19_StringLiteral ==
    \A i \in 1..Len(out) :
        LET s == DecodedString(StartOf(i) + 1, <<>>)
        IN  (StartsAtCharacter(i) /\ At(StartOf(i)) = Ch["\""])
            => /\ s.ok
                  => /\ out[i].type = "StringLit"
                     /\ out[i].payload.kind = "text"
                     /\ Bytes(out[i].payload.text) = Bytes(s.str)
                     /\ out[i].source_code = SubSeq(Input, StartOf(i), s.close)
               /\ ~s.ok => IsErrorToken(i, "invalid character in string")

\* a string with an escaped quote in it has been read up to its closing
\* quote, and another token after it
C19_Witness ==
    \E i \in 1..Len(out) :
        /\ out[i].type = "StringLit"
        /\ out[i].source_code = S(<<"\"","a","\\","\"","\"">>)
        /\ Bytes(out[i].payload.text) = S(<<"a","\"">>)
        /\ Len(out) > i

\* C20: the input "a\x" in quotes gives one Error token, of message "invalid
\* character in string", and no other Error token before EndOfFile.
C20_SingleError ==
    (Input = S(<<"\"","a","\\","x","\"">>) /\ pc = "idle" /\ out # <<>>
     /\ Last(out).type = "EndOfFile")
    => /\ \E i \in 1..Len(out) :
             IsErrorToken(i, "invalid character in string")
       /\ Cardinality({ i \in 1..Len(out) : out[i].type = "Error" }) = 1

\* ------------------------------------------------------------------------
\* Properties of raw strings, escapes, operators and unknown characters
\* ------------------------------------------------------------------------

\* every character but the backtick
NotBacktick == (0..127) \ {Ch["backtick"]}

\* C21: a backtick, characters, and a closing backtick is one StringLit with
\* exactly the characters in between as payload, backslashes, quotes and
\* newlines as they are; if the input ends before the closing backtick the
\* call returns the Error "invalid end-of-file in raw string".
C21_RawString ==
    \A i \in 1..Len(out) :
        LET str == RunFrom(StartOf(i) + 1, NotBacktick)
            close == StartOf(i) + 1 + Len(str)
        IN  (StartsAtCharacter(i) /\ At(StartOf(i)) = Ch["backtick"])
            => /\ At(close) = Ch["backtick"]
                  => IsTextToken(i, "StringLit", str,
                                 SubSeq(Input, StartOf(i), close))
               /\ At(close) # Ch["backtick"]
                  => /\ IsErrorToken(i, "invalid end-of-file in raw string")
                     /\ spans[i].to = Len(Input)

\* a raw string of a backslash, a quote and a newline has been read
C21_Witness ==
    \E i \in 1..Len(out) :
        /\ out[i].type = "StringLit"
        /\ At(StartOf(i)) = Ch["backtick"]
        /\ out[i].payload = Text(S(<<"\\","\"","\n">>))

\* C22: in a string, \a, \b, \f, \n, \r, \t, \v, \\, \' and \" stand for
\* the bytes 7, 8, 12, 10, 13, 9, 11, 92, 39 and 34; a character that is not
\* a backslash stands for itself; a backslash before any other character
\* that is no octal digit, or before end-of-input, makes the decoding fail.
C22_NamedEscapes ==
    \A i \in 1..Len(out) :
        LET first == At(StartOf(i) + 1)
            second == At(StartOf(i) + 2)
        IN  (StartsAtCharacter(i) /\ At(StartOf(i)) = Ch["\""])
            => /\ (/\ first = Ch["\\"]
                   /\ second \in DOMAIN EscapeValue
                   /\ At(StartOf(i) + 3) = Ch["\""])
                  => IsTextToken(i, "StringLit", <<EscapeValue[second]>>,
                                 SubSeq(Input, StartOf(i), StartOf(i) + 3))
               /\ (/\ first \notin {Ch["\\"], Ch["\""], NullOpt}
                   /\ second = Ch["\""])
                  => IsTextToken(i, "StringLit", <<first>>,
                                 SubSeq(Input, StartOf(i), StartOf(i) + 2))
               /\ (/\ first = Ch["\\"]
                   /\ second \notin (DOMAIN EscapeValue) \cup OctalDigits)
                  => IsErrorToken(i, "invalid character in string")

\* the string of \v has been read as the byte 11, and a token after it
C22_Witness ==
    \E i \in 1..Len(out) :
        /\ IsTextToken(i, "StringLit", <<11>>, S(<<"\"","\\","v","\"">>))
        /\ Len(out) > i

\* the length of the shortest start of the digits whose value is 256 or more
OverflowAt(digits) ==
    CHOOSE k \in 1..Len(digits) :
        /\ ValueOf(SubSeq(digits, 1, k), 8) >= 256
        /\ \A j \in 1..(k - 1) : ValueOf(SubSeq(digits, 1, j), 8) < 256

\* C23: in a string, a backslash and octal digits stand for the value of all
\* the digits that follow while that value is below 256; as soon as the value
\* is 256 or more the string is the Error "invalid character in string", and
\* no digit after that one is read.
C23_OctalEscape ==
    \A i \in 1..Len(out) :
        LET digits == RunFrom(StartOf(i) + 2, OctalDigits)
            after == StartOf(i) + 2 + Len(digits)
        IN  (/\ StartsAtCharacter(i)
             /\ At(StartOf(i)) = Ch["\""]
             /\ At(StartOf(i) + 1) = Ch["\\"]
             /\ At(StartOf(i) + 2) \in OctalDigits)
            => /\ (ValueOf(digits, 8) < 256 /\ At(after) = Ch["\""])
                  => /\ out[i].type = "StringLit"
                     /\ out[i].payload.kind = "text"
                     /\ Bytes(out[i].payload.text) = <<ValueOf(digits, 8)>>
                     /\ out[i].source_code = SubSeq(Input, StartOf(i), after)
               /\ ValueOf(digits, 8) >= 256
                  => /\ IsErrorToken(i, "invalid character in string")
                     /\ out[i].source_code =
                          SubSeq(Input, StartOf(i),
                                 StartOf(i) + 1 + OverflowAt(digits))

\* the string of \377 has been read as the byte 255, and a token after it
C23_Witness ==
    \E i \in 1..Len(out) :
        /\ out[i].type = "StringLit"
        /\ out[i].source_code = S(<<"\"","\\","3","7","7","\"">>)
        /\ Bytes(out[i].payload.text) = <<255>>
        /\ Len(out) > i

\* the operators of two characters
TwoCharacters ==
    (S(<<"<","<">>) :> "ShLeft") @@ (S(<<"<","=">>) :> "LessEqual")
    @@ (S(<<">",">">>) :> "ShRight") @@ (S(<<">","=">>) :> "GreaterEqual")
    @@ (S(<<"=","=">>) :> "Equal") @@ (S(<<"!","=">>) :> "NotEqual")
    @@ (S(<<"&","&">>) :> "LogicAnd") @@ (S(<<"|","|">>) :> "LogicOr")
    @@ (S(<<"@","@">>) :> "TokCat")

\* the operators of one character that also start one of two characters
OneCharacter ==
    (Ch["<"] :> "Less") @@ (Ch[">"] :> "Greater") @@ (Ch["!"] :> "LogicNot")
    @@ (Ch["&"] :> "BitAnd") @@ (Ch["|"] :> "BitOr")

\* token i is of this type, without payload, made of this input
IsPlainToken(i, type, source) ==
    /\ out[i].type = type
    /\ out[i].payload = Monostate
    /\ out[i].source_code = source
    /\ spans[i].to = spans[i].from + Len(source)

\* C24: when the two characters of <<, <=, >>, >=, ==, !=, &&, || or @@ are
\* next to each other the token is the one of two characters and both are
\* consumed; when the second character is another one, the token of <, >, !,
\* & or | is the one of one character and one character is consumed.
C24_MaximalMunch ==
    \A i \in 1..Len(out) :
        LET first == At(StartOf(i))
            pair == <<first, At(StartOf(i) + 1)>>
        IN  StartsAtCharacter(i)
            => /\ pair \in DOMAIN TwoCharacters
                  => IsPlainToken(i, TwoCharacters[pair], pair)
               /\ (first \in DOMAIN OneCharacter
                   /\ pair \notin DOMAIN TwoCharacters)
                  => IsPlainToken(i, OneCharacter[first], <<first>>)

\* <<< has been read as ShLeft and then Less
C24_Witness ==
    \E i \in 1..(Len(out) - 1) :
        /\ IsPlainToken(i, "ShLeft", S(<<"<","<">>))
        /\ IsPlainToken(i + 1, "Less", S(<<"<">>))
        /\ spans[i + 1].from = spans[i].to

\* C25: a = that no = follows is the Error "Single equals sign is not a
\* valid token" made of that one character, and the next token starts at
\* the character after it.
C25_SingleEquals ==
    \A i \in 1..Len(out) :
        (/\ StartsAtCharacter(i)
         /\ At(StartOf(i)) = Ch["="]
         /\ At(StartOf(i) + 1) # Ch["="])
        => /\ IsErrorToken(i, "Single equals sign is not a valid token")
           /\ out[i].source_code = S(<<"=">>)
           /\ spans[i].to = StartOf(i)
           /\ i < Len(out)
              => /\ spans[i + 1].from >= spans[i].to
                 /\ AllSkipped(Gap(i))
                 /\ (~Skipped(<<At(StartOf(i) + 1)>>, 1)
                     /\ At(StartOf(i) + 1) # NullOpt)
                    => spans[i + 1].from = spans[i].to

\* =a has been read as the Error and then the identifier a
C25_Witness ==
    \E i \in 1..(Len(out) - 1) :
        /\ IsErrorToken(i, "Single equals sign is not a valid token")
        /\ out[i + 1].type = "Identifier"
        /\ spans[i + 1].from = spans[i].to

\* the characters of the operators and of the punctuation
OperatorChars ==
    { Ch[c] : c \in {",", "(", ")", "+", "-", "*", "/", "%", "^", "<", ">",
                     "=", "!", "~", "&", "|"} }

\* the characters that are skipped or start a token
KnownChars ==
    {Ch[" "], Ch["\t"], Ch["\r"], Ch["\n"], Ch[";"], Ch["\""], Ch["'"],
     Ch["backtick"], Ch["@"]}
        \cup OperatorChars \cup Digits \cup IdentifierChars

\* C26: a character that is not skipped and starts no token is the Error
\* "Unknown character" made of exactly that one character.
C26_UnknownCharacter ==
    \A i \in 1..Len(out) :
        (StartsAtCharacter(i) /\ At(StartOf(i)) \notin KnownChars)
        => /\ IsErrorToken(i, "Unknown character")
           /\ out[i].source_code = <<At(StartOf(i))>>
           /\ spans[i].to = StartOf(i)

\* [ has been read as an unknown character, between two other tokens
C26_Witness ==
    \E i \in 2..(Len(out) - 1) :
        /\ IsErrorToken(i, "Unknown character")
        /\ out[i].source_code = S(<<"[">>)
        /\ out[i - 1].type # "Error"
        /\ out[i + 1].type \notin {"Error", "NewLine", "EndOfFile"}

\* C27: the value of a character literal is the byte of its character, from
\* 0 to 255: for a byte of 128 or more, as of the octal escape \377, it is
\* that byte and no negative number.
C27_CharacterByte ==
    \A i \in 1..Len(out) :
        (/\ StartsAtCharacter(i)
         /\ At(StartOf(i)) = Ch["'"]
         /\ out[i].type = "NumericLit")
        => /\ out[i].payload.integer \in 0..255
           /\ out[i].payload.integer = DecodedAt(StartOf(i) + 1).value

\* ------------------------------------------------------------------------
\* Properties of the whole stream of tokens
\* ------------------------------------------------------------------------

\* C28: the NewLine of end-of-input and every EndOfFile are at the position
\* right after the last input character, whatever the tokens before, and the
\* position does not move once the input has ended.
C28_EndPosition ==
    \A i \in 1..Len(out) :
        ~StartsAtCharacter(i)
        => /\ out[i].pos.line = LineOf(Len(Input) + 1)
           /\ out[i].pos.column = ColumnOf(Len(Input) + 1)

\* C29: after CMP or CMPI and /, the condition is the whole run of
\* identifier characters: when that run is not, in upper case, a condition,
\* the token is an Error, and no Mnemonic followed by another token.
C29_WholeCondition ==
    \A i \in 1..Len(out) :
        LET name == RunFrom(StartOf(i), IdentifierChars)
            slash == StartOf(i) + Len(name)
            cond == RunFrom(slash + 1, IdentifierChars)
        IN  (/\ StartsAtCharacter(i)
             /\ Upper(name) \in CompareMnemonics
             /\ At(slash) = Ch["/"]
             /\ Upper(cond) \notin conds)
            => out[i].type = "Error"

\* C30: the source_texts of the tokens are pieces of the input that follow
\* each other without overlap, every input character before, between and
\* after them is a space, a tab, a carriage return, a character of a comment
\* or a newline, and when EndOfFile is returned no input character is left.
C30_Partition ==
    \A i \in 1..Len(out) :
        /\ spans[i].from <= spans[i].to
        /\ spans[i].to <= Len(Input)
        /\ out[i].source_code = Slice(spans[i].from, spans[i].to)
        /\ i = 1 => AllSkipped(Slice(0, spans[1].from))
        /\ i < Len(out) =>
              /\ spans[i].to <= spans[i + 1].from
              /\ AllSkipped(Gap(i))
        /\ out[i].type = "EndOfFile" => spans[i].from = Len(Input)

\* the input has been read to its end, with a comment and a newline between
\* two of its tokens and a newline that is a token of its own
C30_Witness ==
    /\ Len(out) >= 4
    /\ Last(out).type = "EndOfFile"
    /\ \E i \in 1..(Len(out) - 1) :
          /\ \E k \in 1..Len(Gap(i)) : Gap(i)[k] = Ch[";"]
          /\ \E k \in 1..Len(Gap(i)) : Gap(i)[k] = Ch["\n"]
    /\ \E i \in 1..Len(out) : out[i].source_code = S(<<"\n">>)

\* token i is a TokCat, an operator, a comma, a ( or the Error of a single
\* = or of an unknown character
EndsNoStatement(i) ==
    \/ out[i].type \in ContinuationTypes
    \/ IsErrorToken(i, "Single equals sign is not a valid token")
    \/ IsErrorToken(i, "Unknown character")

\* token i is the Error of a string, a character literal, a raw string, an
\* identifier or a numeric literal
IsLiteralError(i) ==
    /\ out[i].type = "Error"
    /\ At(StartOf(i)) \in {Ch["\""], Ch["'"], Ch["backtick"]}
                              \cup Digits \cup IdentifierChars

\* a newline or the end of the input follows token i, after whitespace and
\* comments at most: the next token starts there, or a newline was skipped
NewlineFollows(i) ==
    \/ ~StartsAtCharacter(i + 1)
    \/ At(StartOf(i + 1)) = Ch["\n"]
    \/ \E k \in 1..Len(Gap(i)) : Gap(i)[k] = Ch["\n"]

\* C31: after a TokCat, an operator, a comma, a ( and after the Error of a
\* single = or of an unknown character, can_newline is false and the next
\* token is no NewLine, so that an input that ends there goes to EndOfFile;
\* after the Error of a string, a character literal, a raw string, an
\* identifier or a numeric literal, can_newline is true and a newline or the
\* end of the input that follows gives a NewLine.
C31_NewlineAfterToken ==
    \A i \in 1..Len(out) :
        /\ EndsNoStatement(i)
           => /\ (i = Len(out) /\ pc = "idle") => ~t.can_newline
              /\ i < Len(out)
                 => /\ out[i + 1].type # "NewLine"
                    /\ ~StartsAtCharacter(i + 1)
                       => out[i + 1].type = "EndOfFile"
        /\ IsLiteralError(i)
           => /\ (i = Len(out) /\ pc = "idle") => t.can_newline
              /\ (i < Len(out) /\ NewlineFollows(i))
                 => out[i + 1].type = "NewLine"

\* cmp, a newline and = have been read as an Error and its NewLine, then
\* the Error of the single = and EndOfFile with no NewLine
C31_Witness ==
    /\ \E i \in 1..(Len(out) - 1) :
          /\ IsLiteralError(i)
          /\ out[i + 1].type = "NewLine"
          /\ out[i + 1].source_code = S(<<"\n">>)
    /\ \E i \in 1..(Len(out) - 1) :
          /\ IsErrorToken(i, "Single equals sign is not a valid token")
          /\ out[i + 1].type = "EndOfFile"

====
